---- MODULE Spec2Model ----
(***************************************************************************)
(* Model of src/transcriberApp/WhisperTranscriber.py and of               *)
(* src/transcribe.py.                                                      *)
(*                                                                         *)
(* main() of the application is Init and MainLaunch (SpecMain): as written *)
(* App.__init__ raises before any widget value, queue user or thread       *)
(* exists, and main() ends in an error dialog.  No run of the application  *)
(* gets into a method of App, so none is modelled.                         *)
(*                                                                         *)
(* The class TranscriberWorker is modelled as it runs for whoever builds   *)
(* and starts it (WorkerStarted): the thread's program counter and locals, *)
(* the queue.Queue it was given and that its owner fills, and the two      *)
(* callbacks it was given, on_update, which takes a message, and           *)
(* get_outdir, which answers with the output setting of the moment.  Every *)
(* step of the thread is one access to state it shares (the queue, its     *)
(* unfinished_tasks counter, a callback, the file system).  External calls *)
(* whose result the program cannot control (imports, whisper.load_model,   *)
(* os.makedirs, model.transcribe, open/write, shutil.which) are            *)
(* nondeterministic choices between returning and raising.                 *)
(*                                                                         *)
(* Variables marked "history" record what happened (calls made, messages   *)
(* passed to on_update); the program does not read them.                   *)
(*                                                                         *)
(* Spec is the worker and its owner, LiveSpec adds the scheduling of the   *)
(* thread, LiveStop a call of TranscriberWorker.stop().  SpecCli is the    *)
(* command-line script src/transcribe.py, a program of its own.            *)
(***************************************************************************)
EXTENDS Integers, Sequences, FiniteSets, TLC

\* ------------------------------------------------------------------ bounds
\* Number of paths the owner puts in the queue.
MaxItems == 3
\* Number of changes of the output setting.
MaxEdits == 1

\* Media files, as <<directory, file name>>.
Paths == {<<"m", "a">>, <<"v", "b">>}
\* Answers of get_outdir (a sequence of characters): none, a directory, a
\* blank.
OutdirTexts == {<< >>, <<"x">>, <<" ">>}

VARIABLES
  dnd,          \* the import of tkinterdnd2 succeeded (lines 15-18; fixed)
  mainPc,       \* main() of the application: where it is
  ffmpegFound,  \* shutil.which finds ffmpeg and ffprobe (fixed)
  fs,           \* the media files that exist on disk
  setting,      \* what get_outdir answers now
  in_q,         \* queue.Queue: the items waiting
  unfinished,   \* queue.Queue.unfinished_tasks
  workerPc,     \* TranscriberWorker.run: where the thread is
  cur,          \* run: the item of the current iteration (path)
  outcome,      \* how the current iteration went so far
  model,        \* TranscriberWorker._model
  outdir,       \* run: outdir of the current iteration
  stopFlag,     \* TranscriberWorker._stop
  nextId,       \* history: number of items put so far
  nEdits,       \* history: number of changes of the output setting
  emitted,      \* history: the messages passed to on_update, in call order
  hist,         \* history: the calls the worker made
  files,        \* history: the transcript files opened for writing
  cli           \* the run of transcribe.py

vars == <<dnd, mainPc, ffmpegFound, fs, setting, in_q, unfinished, workerPc,
          cur, outcome, model, outdir, stopFlag, nextId, nEdits, emitted,
          hist, files, cli>>

None == "None"

\* No item: the value of the worker's path outside an iteration.
NoItem == [path |-> <<"", "">>, id |-> 0, sub |-> << >>]

workerVars == <<workerPc, cur, outcome, model, outdir>>
\* What the worker thread leaves alone.
ownerVars == <<dnd, mainPc, ffmpegFound, fs, setting, stopFlag, nEdits, cli>>

\* ---------------------------------------------------------- pure helpers

\* str.strip().
RECURSIVE LStrip(_)
LStrip(s) == IF s # << >> /\ Head(s) = " " THEN LStrip(Tail(s)) ELSE s

RECURSIVE RStrip(_)
RStrip(s) ==
  IF s # << >> /\ s[Len(s)] = " " THEN RStrip(SubSeq(s, 1, Len(s) - 1)) ELSE s

Strip(s) == RStrip(LStrip(s))

\* os.path.dirname(path)
Dirname(p) == <<p[1]>>

\* An output directory taken from the answer get_outdir gave when the item
\* was put in the queue.
ResolveOutdirAtPut(got, item) ==
  IF item.sub # << >> THEN item.sub ELSE Dirname(item.path)

\* self.get_outdir() or os.path.dirname(path)
ResolveOutdir(got, item) == IF got # << >> THEN got ELSE Dirname(item.path)

\* A status message: its kind and the item it is about (0: none).
Msg(k, item) == [kind |-> k, id |-> item]

\* Messages that start with [Done], [Error] or [Skip].
TerminalKinds == {"Done", "Error", "MissingDeps", "Skip"}

\* A get that returns the newest item.
QueueGetNewest(q) == q[Len(q)]

\* queue.Queue.get: the oldest item; queue.Queue.put: at the tail.
QueueGet(q) == Head(q)
QueueRest(q) == Tail(q)
QueuePut(q, item) == Append(q, item)

\* queue.Queue.task_done: raises ValueError when the counter would go below
\* zero and leaves it alone, else decrements it.
TaskDoneRaises(u) == u - 1 < 0
TaskDone(u) == IF TaskDoneRaises(u) THEN u ELSE u - 1

\* queue.Queue.join returns once unfinished_tasks is zero.
JoinReturns(u) == u = 0

\* ------------------------------------------------------------------- Init
\* The script transcribe.py is not run.
CliOff ==
  [pc |-> "off", argv |-> << >>, exists |-> FALSE, ffmpeg |-> FALSE,
   whisper |-> FALSE, did |-> << >>, code |-> 0, by |-> "running", out |-> << >>,
   written |-> "no"]

\* Nothing has happened yet: an empty queue, empty histories, and
\* TranscriberWorker.__init__'s values of _stop and _model.
Fresh ==
  /\ fs = Paths
  /\ setting = << >>
  /\ in_q = << >>
  /\ unfinished = 0
  /\ cur = NoItem
  /\ outcome = "none"
  /\ model = None
  /\ outdir = << >>
  /\ stopFlag = FALSE
  /\ nextId = 0
  /\ nEdits = 0
  /\ emitted = << >>
  /\ hist = << >>
  /\ files = << >>

\* main() of WhisperTranscriber.py is entered, line 312: App() is about to
\* be built; there is no worker.
Init ==
  /\ Fresh
  /\ dnd \in BOOLEAN
  /\ ffmpegFound \in BOOLEAN
  /\ mainPc = "main"
  /\ workerPc = "unborn"
  /\ cli = CliOff

\* main, lines 312-323: App.__init__ raises, RuntimeError at line 146 when
\* tkinterdnd2 was not imported, else AttributeError at line 174
\* (tkinter.ttk has no Listbox), before the worker is built (214) and
\* started (219); main shows the message in an error dialog and returns.
\* mainloop is not entered and no thread is started.
MainLaunch ==
  /\ mainPc = "main"
  /\ mainPc' = IF dnd THEN "error_no_ttk_listbox" ELSE "error_no_tkinterdnd2"
  /\ UNCHANGED <<dnd, ffmpegFound, fs, setting, stopFlag, nEdits, cli>>
  /\ UNCHANGED <<workerVars, in_q, unfinished, nextId, emitted, hist, files>>

\* The application as main() runs it.
SpecMain == Init /\ [][MainLaunch]_vars

\* TranscriberWorker.__init__, lines 55-63, and Thread.start: a worker built
\* by its owner on a queue and two callbacks, and started; run() is about
\* to call ensure_ffmpeg.  main() is not run.
WorkerStarted ==
  /\ Fresh
  /\ dnd = FALSE
  /\ ffmpegFound \in BOOLEAN
  /\ mainPc = "off"
  /\ workerPc = "ensure"
  /\ cli = CliOff

\* self.on_update(msg) for each msg of msgs, in order: the owner's callback
\* takes the message and returns.
Emit(msgs) == emitted' = emitted \o msgs

\* One more call of the worker recorded: what, for which item, and the
\* answer it got (get_outdir only).
Call(op, item) == [op |-> op, id |-> item, field |-> << >>]
Did(op, item) == hist' = Append(hist, Call(op, item))

\* ------------------------------------------------------------ the owner
\* in_q.put(path): the owner of the queue puts a path, on disk or not.
\* sub is history: the output setting at the moment of the put.
Put(p) ==
  /\ nextId < MaxItems
  /\ in_q' = QueuePut(in_q, [path |-> p, id |-> nextId + 1, sub |-> setting])
  /\ unfinished' = unfinished + 1
  /\ nextId' = nextId + 1
  /\ UNCHANGED <<ownerVars, workerVars, emitted, hist, files>>

\* The output setting changes: get_outdir answers v from now on.
SetOutdir(v) ==
  /\ nEdits < MaxEdits
  /\ v # setting
  /\ setting' = v
  /\ nEdits' = nEdits + 1
  /\ UNCHANGED <<dnd, mainPc, ffmpegFound, fs, stopFlag, cli>>
  /\ UNCHANGED <<workerVars, in_q, unfinished, nextId, emitted, hist, files>>

\* ------------------------------------------------------------ environment
\* A media file is deleted or moved away.
Vanish(p) ==
  /\ p \in fs
  /\ fs' = fs \ {p}
  /\ UNCHANGED <<dnd, mainPc, ffmpegFound, setting, stopFlag, nEdits, cli>>
  /\ UNCHANGED <<workerVars, in_q, unfinished, nextId, emitted, hist, files>>

\* ---------------------------------------------------------- worker thread
\* TranscriberWorker.run.  A step ends at an access to state the thread
\* shares (the queue and its counter, a callback, the files on disk); what
\* the thread does on its own in between belongs to the step that follows.
\* The call of the model, the open of the transcript file and its writing
\* are three steps: other threads run in between.
\* W(k) is a message of the worker about cur.
W(k) == Msg(k, cur.id)

\* A worker that reports the missing tool and polls the queue all the same.
WorkerEnsureProceeds ==
  /\ workerPc = "ensure"
  /\ IF ffmpegFound
       THEN /\ workerPc' = "get"
            /\ UNCHANGED emitted
       ELSE /\ Emit(<<Msg("FfmpegError", 0)>>)
            /\ workerPc' = "get"
  /\ UNCHANGED <<cur, outcome, model, outdir>>
  /\ UNCHANGED <<ownerVars, in_q, unfinished, nextId, hist, files>>

\* Lines 79-84: ensure_ffmpeg; on failure one report and the thread returns.
WorkerEnsure ==
  /\ workerPc = "ensure"
  /\ IF ffmpegFound
       THEN /\ workerPc' = "get"
            /\ UNCHANGED emitted
       ELSE /\ Emit(<<Msg("FfmpegError", 0)>>)
            /\ workerPc' = "returned"
  /\ UNCHANGED <<cur, outcome, model, outdir>>
  /\ UNCHANGED <<ownerVars, in_q, unfinished, nextId, hist, files>>

\* stop(), lines 65-66: the event is set, by the thread that calls it.
Stop ==
  /\ ~stopFlag
  /\ stopFlag' = TRUE
  /\ Did("stop", 0)
  /\ UNCHANGED <<dnd, mainPc, ffmpegFound, fs, setting, nEdits, cli>>
  /\ UNCHANGED <<workerVars, in_q, unfinished, nextId, emitted, files>>

\* A loop that never looks at the stop event.
WorkerLoopTestIgnoresStop ==
  /\ workerPc = "get"
  /\ workerPc' = "poll"
  /\ UNCHANGED <<cur, outcome, model, outdir>>
  /\ UNCHANGED <<ownerVars, in_q, unfinished, nextId, emitted, hist, files>>

\* Line 86, where stop() can be called: `while not self._stop.is_set()`; the
\* loop is left and run returns, or get() is entered.
WorkerLoopTest ==
  /\ workerPc = "get"
  /\ workerPc' = IF stopFlag THEN "returned" ELSE "poll"
  /\ UNCHANGED <<cur, outcome, model, outdir>>
  /\ UNCHANGED <<ownerVars, in_q, unfinished, nextId, emitted, hist, files>>

\* Lines 87-90: in_q.get(timeout=0.2) returns the oldest item, or the queue
\* stays empty for the timeout, queue.Empty is raised and the loop continues
\* at its test.  The stop event is not looked at here.
WorkerPoll ==
  /\ workerPc = "poll"
  /\ IF in_q # << >>
       THEN /\ cur' = QueueGet(in_q)
            /\ in_q' = QueueRest(in_q)
            /\ outcome' = "none"
            /\ workerPc' = "exists"
            /\ Did("get", QueueGet(in_q).id)
       ELSE /\ workerPc' = "get"
            /\ UNCHANGED <<cur, in_q, outcome, hist>>
  /\ UNCHANGED <<model, outdir>>
  /\ UNCHANGED <<ownerVars, unfinished, nextId, emitted, files>>

\* A worker that initializes the model for every existing item, loaded or
\* not.
WorkerExistsReinit ==
  /\ workerPc = "exists"
  /\ IF cur.path \in fs
       THEN /\ workerPc' = "init"
            /\ UNCHANGED <<emitted, outcome>>
       ELSE /\ Emit(<<W("Skip")>>)
            /\ outcome' = "skip"
            /\ workerPc' = "skip_done"
  /\ UNCHANGED <<cur, model, outdir>>
  /\ UNCHANGED <<ownerVars, in_q, unfinished, nextId, hist, files>>

\* Lines 92-93 and 98: os.path.exists(path); a missing file is reported; for
\* a file that is there, the test of self._model.
WorkerExists ==
  /\ workerPc = "exists"
  /\ IF cur.path \in fs
       THEN /\ workerPc' = IF model = None THEN "init" ELSE "outdir"
            /\ UNCHANGED <<emitted, outcome>>
       ELSE /\ Emit(<<W("Skip")>>)
            /\ outcome' = "skip"
            /\ workerPc' = "skip_done"
  /\ UNCHANGED <<cur, model, outdir>>
  /\ UNCHANGED <<ownerVars, in_q, unfinished, nextId, hist, files>>

\* Lines 94-95: task_done() and continue; a ValueError raised here is outside
\* every try block and ends the thread.
WorkerSkipDone ==
  /\ workerPc = "skip_done"
  /\ unfinished' = TaskDone(unfinished)
  /\ IF TaskDoneRaises(unfinished)
       THEN /\ workerPc' = "crashed"
            /\ Did("task_done_raised", cur.id)
       ELSE /\ workerPc' = "get"
            /\ Did("task_done", cur.id)
  /\ UNCHANGED <<cur, outcome, model, outdir>>
  /\ UNCHANGED <<ownerVars, in_q, nextId, emitted, files>>

\* Lines 99-100 and 70-73: _lazy_init imports torch and whisper, and an
\* import can raise.
WorkerLazyInit ==
  /\ workerPc = "init"
  /\ Did("init", cur.id)
  /\ \/ workerPc' = "loading" /\ UNCHANGED outcome
     \/ workerPc' = "initfail_report" /\ outcome' = "initfail"
  /\ UNCHANGED <<cur, model, outdir>>
  /\ UNCHANGED <<ownerVars, in_q, unfinished, nextId, emitted, files>>

\* Line 74: the load is announced.
WorkerLoading ==
  /\ workerPc = "loading"
  /\ Emit(<<W("Loading")>>)
  /\ workerPc' = "load"
  /\ UNCHANGED <<cur, outcome, model, outdir>>
  /\ UNCHANGED <<ownerVars, in_q, unfinished, nextId, hist, files>>

\* Lines 75-76: whisper.load_model returns the model, which is kept, or
\* raises.
WorkerLoadModel ==
  /\ workerPc = "load"
  /\ \/ model' = "loaded" /\ workerPc' = "outdir" /\ UNCHANGED outcome
     \/ workerPc' = "initfail_report" /\ outcome' = "initfail"
                                       /\ UNCHANGED model
  /\ UNCHANGED <<cur, outdir>>
  /\ UNCHANGED <<ownerVars, in_q, unfinished, nextId, emitted, hist, files>>

\* Lines 101-105: the first report of a failed initialization.
WorkerInitFailReport ==
  /\ workerPc = "initfail_report"
  /\ Emit(<<W("MissingDeps")>>)
  /\ workerPc' = "initfail_text"
  /\ UNCHANGED <<cur, outcome, model, outdir>>
  /\ UNCHANGED <<ownerVars, in_q, unfinished, nextId, hist, files>>

\* Line 106: the second report of a failed initialization, the text of the
\* exception.
WorkerInitFailText ==
  /\ workerPc = "initfail_text"
  /\ Emit(<<W("ExcText")>>)
  /\ workerPc' = "initfail_done"
  /\ UNCHANGED <<cur, outcome, model, outdir>>
  /\ UNCHANGED <<ownerVars, in_q, unfinished, nextId, hist, files>>

\* Lines 107-108: task_done() and continue, inside the outer try: continue
\* runs the finally clause, a ValueError goes to the except clause.
WorkerInitFailDone ==
  /\ workerPc = "initfail_done"
  /\ unfinished' = TaskDone(unfinished)
  /\ IF TaskDoneRaises(unfinished)
       THEN /\ workerPc' = "except"
            /\ Did("task_done_raised", cur.id)
       ELSE /\ workerPc' = "finally"
            /\ Did("task_done", cur.id)
  /\ UNCHANGED <<cur, outcome, model, outdir>>
  /\ UNCHANGED <<ownerVars, in_q, nextId, emitted, files>>

\* Lines 110-112: get_outdir is called now, for this item; os.makedirs
\* returns or raises.
WorkerOutdir ==
  /\ workerPc = "outdir"
  /\ outdir' = ResolveOutdir(setting, cur)
  /\ hist' = Append(hist, [op |-> "get_outdir", id |-> cur.id,
                            field |-> setting])
  /\ \/ workerPc' = "announce" /\ UNCHANGED outcome
     \/ workerPc' = "except" /\ outcome' = "raised"
  /\ UNCHANGED <<cur, model>>
  /\ UNCHANGED <<ownerVars, in_q, unfinished, nextId, emitted, files>>

\* Lines 115-117: media_duration_seconds (never raises) and the report.
WorkerAnnounce ==
  /\ workerPc = "announce"
  /\ Emit(<<W("Transcribing")>>)
  /\ workerPc' = "transcribe"
  /\ UNCHANGED <<cur, outcome, model, outdir>>
  /\ UNCHANGED <<ownerVars, in_q, unfinished, nextId, hist, files>>

\* The record of one open(txt_path, "w"): the item, the directory, and
\* whether the text was written and the file closed.
Written(whole) == [id |-> cur.id, path |-> cur.path, dir |-> outdir,
                   whole |-> whole]

\* A worker that opens the transcript file before it calls the model, so
\* that a failed transcription leaves a file behind.
WorkerTranscribeOpensFirst ==
  /\ workerPc = "transcribe"
  /\ Did("transcribe", cur.id)
  /\ files' = Append(files, Written(FALSE))
  /\ \/ /\ workerPc' = "except"
        /\ outcome' = "raised"
     \/ /\ workerPc' = "write"
        /\ UNCHANGED outcome
  /\ UNCHANGED <<cur, model, outdir>>
  /\ UNCHANGED <<ownerVars, in_q, unfinished, nextId, emitted>>

\* Lines 120-125: self._model.transcribe(path, ...) returns its result or
\* raises; no file is touched.
WorkerTranscribe ==
  /\ workerPc = "transcribe"
  /\ Did("transcribe", cur.id)
  /\ \/ /\ workerPc' = "except"
        /\ outcome' = "raised"
     \/ /\ workerPc' = "open"
        /\ UNCHANGED outcome
  /\ UNCHANGED <<cur, model, outdir>>
  /\ UNCHANGED <<ownerVars, in_q, unfinished, nextId, emitted, files>>

\* Lines 128-129: open(txt_path, "w") raises and there is no file, or it
\* creates the file, empty.
WorkerOpen ==
  /\ workerPc = "open"
  /\ \/ /\ Did("open_raised", cur.id)
        /\ workerPc' = "except"
        /\ outcome' = "raised"
        /\ UNCHANGED files
     \/ /\ Did("open", cur.id)
        /\ files' = Append(files, Written(FALSE))
        /\ workerPc' = "write"
        /\ UNCHANGED outcome
  /\ UNCHANGED <<cur, model, outdir>>
  /\ UNCHANGED <<ownerVars, in_q, unfinished, nextId, emitted>>

\* The file opened for cur, with its text written.
Filled(fl) ==
  [k \in DOMAIN fl |-> IF fl[k].id = cur.id THEN [fl[k] EXCEPT !.whole = TRUE]
                                            ELSE fl[k]]

\* Line 130 and the end of the with block: result.get, f.write or the close
\* raises and the file stays as open left it; or the text is written and
\* the file closed.
WorkerWrite ==
  /\ workerPc = "write"
  /\ \/ /\ Did("write_raised", cur.id)
        /\ workerPc' = "except"
        /\ outcome' = "raised"
        /\ UNCHANGED files
     \/ /\ Did("write", cur.id)
        /\ files' = Filled(files)
        /\ workerPc' = "report_done"
        /\ UNCHANGED outcome
  /\ UNCHANGED <<cur, model, outdir>>
  /\ UNCHANGED <<ownerVars, in_q, unfinished, nextId, emitted>>

\* Lines 133-134: the completion report, after the file is closed.
WorkerReportDone ==
  /\ workerPc = "report_done"
  /\ Emit(<<W("Done")>>)
  /\ outcome' = "done"
  /\ workerPc' = "finally"
  /\ UNCHANGED <<cur, model, outdir>>
  /\ UNCHANGED <<ownerVars, in_q, unfinished, nextId, hist, files>>

\* Lines 136-137: any exception of the iteration is reported.
WorkerExcept ==
  /\ workerPc = "except"
  /\ Emit(<<W("Error")>>)
  /\ workerPc' = "finally"
  /\ UNCHANGED <<cur, outcome, model, outdir>>
  /\ UNCHANGED <<ownerVars, in_q, unfinished, nextId, hist, files>>

\* Lines 138-139: finally: task_done(); a ValueError raised here leaves run
\* and ends the thread.
WorkerFinally ==
  /\ workerPc = "finally"
  /\ unfinished' = TaskDone(unfinished)
  /\ IF TaskDoneRaises(unfinished)
       THEN /\ workerPc' = "crashed"
            /\ Did("task_done_raised", cur.id)
       ELSE /\ workerPc' = "get"
            /\ Did("task_done", cur.id)
  /\ UNCHANGED <<cur, outcome, model, outdir>>
  /\ UNCHANGED <<ownerVars, in_q, nextId, emitted, files>>

Worker ==
  \/ WorkerEnsure \/ WorkerLoopTest \/ WorkerPoll \/ WorkerExists
  \/ WorkerSkipDone \/ WorkerLazyInit \/ WorkerLoading \/ WorkerLoadModel
  \/ WorkerInitFailReport \/ WorkerInitFailText \/ WorkerInitFailDone
  \/ WorkerOutdir
  \/ WorkerAnnounce \/ WorkerTranscribe \/ WorkerOpen \/ WorkerWrite
  \/ WorkerReportDone
  \/ WorkerExcept \/ WorkerFinally

\* --------------------------------------------------------- specifications
Owner ==
  \/ \E p \in Paths : Put(p)
  \/ \E v \in OutdirTexts : SetOutdir(v)

Env == \E p \in Paths : Vanish(p)

Next == Owner \/ Worker \/ Env

\* The worker, its queue and its owner.
Spec == WorkerStarted /\ [][Next]_vars

\* Spec with the scheduling the interpreter gives: a thread that can run
\* does run.
LiveSpec == WorkerStarted /\ [][Next]_vars /\ WF_vars(Worker)

\* The worker being stopped: stop() is called at some moment, once.
NextStop == Owner \/ Stop \/ Worker \/ Env

\* With the scheduling the interpreter gives, as in LiveSpec.
LiveStop == WorkerStarted /\ [][NextStop]_vars /\ WF_vars(Worker)

\* ========================================================= transcribe.py
\* The command-line script is a program of its own: one run of main(), from
\* a command line, a disk, a PATH and a Python installation (with whisper or
\* without) chosen at the start (SpecCli).

\* sys.argv: the script name, the media path, the output folder (blank,
\* relative, absolute, with "." and ".." and a trailing slash).
CliMedia == {<<"m">>, <<"d", "/", "m">>}
CliFolders ==
  {<<" ">>, <<" ", "o">>, <<"o", "/">>, <<"/", "o", "/">>, <<".", "/", "o">>,
   <<".", ".", "/", "o">>, <<"/", "/", "o">>}
CliArgvs ==
  {<< <<"t">> >>}
    \cup {<< <<"t">>, m >> : m \in CliMedia}
    \cup {<< <<"t">>, m, o >> : m \in CliMedia, o \in CliFolders}

\* The run before its first statement.
CliStart ==
  [pc : {"args"}, argv : CliArgvs, exists : BOOLEAN, ffmpeg : BOOLEAN,
   whisper : BOOLEAN, did : {<< >>}, code : {0}, by : {"running"}, out : {<< >>},
   written : {"no"}]

\* sys.exit(code).
CliExit(c, code) == [c EXCEPT !.pc = "exited", !.code = code, !.by = "exit"]

\* An exception that nothing catches: traceback, exit status 1.
CliRaise(c) == [c EXCEPT !.pc = "exited", !.code = 1, !.by = "raise"]

\* The step named step was begun.
CliDid(c, step) == [c EXCEPT !.did = Append(c.did, step)]

CliStep(new) ==
  /\ cli' = new
  /\ UNCHANGED <<dnd, mainPc, ffmpegFound, fs, setting, stopFlag, nEdits>>
  /\ UNCHANGED <<workerVars, in_q, unfinished, nextId, emitted, hist, files>>

\* main, lines 46-49: no argument: usage and exit status 1.
CliArgs ==
  /\ cli.pc = "args"
  /\ CliStep(IF Len(cli.argv) < 2 THEN CliExit(cli, 1)
             ELSE [cli EXCEPT !.pc = "exists"])

\* A script that reports the missing file and goes on.
CliExistsGoesOn ==
  /\ cli.pc = "exists"
  /\ CliStep([cli EXCEPT !.pc = "ffmpeg"])

\* main, lines 51-54: the media file is not there: exit status 1.
CliExists ==
  /\ cli.pc = "exists"
  /\ CliStep(IF cli.exists THEN [cli EXCEPT !.pc = "ffmpeg"]
             ELSE CliExit(cli, 1))

\* main, line 56, ensure_ffmpeg, lines 11-16: RuntimeError when ffmpeg is not
\* on the PATH; nothing catches it.
CliEnsureFfmpeg ==
  /\ cli.pc = "ffmpeg"
  /\ CliStep(IF cli.ffmpeg
               THEN [CliDid(cli, "ffmpeg") EXCEPT !.pc = "import"]
               ELSE CliRaise(CliDid(cli, "ffmpeg")))

\* main, lines 59-63: import whisper; exit status 1 when it fails.
CliImport ==
  /\ cli.pc = "import"
  /\ CliStep(IF cli.whisper
               THEN [CliDid(cli, "import") EXCEPT !.pc = "load"]
               ELSE CliExit(CliDid(cli, "import"), 1))

\* main, lines 66-68: whisper.load_model returns or raises.
CliLoadModel ==
  /\ cli.pc = "load"
  /\ \/ CliStep([CliDid(cli, "load") EXCEPT !.pc = "pick"])
     \/ CliStep(CliRaise(CliDid(cli, "load")))

\* os.getcwd() of the run.
Cwd == <<"/", "w">>

\* The texts between the slashes of p: p.split("/").
RECURSIVE SplitSlash(_)
SplitSlash(p) ==
  IF p = << >> THEN << << >> >>
  ELSE LET rest == SplitSlash(Tail(p))
       IN IF Head(p) = "/" THEN << << >> >> \o rest
          ELSE << <<Head(p)>> \o Head(rest) >> \o Tail(rest)

\* "/".join(comps).
RECURSIVE JoinSlash(_)
JoinSlash(comps) ==
  IF comps = << >> THEN << >>
  ELSE IF Len(comps) = 1 THEN comps[1]
  ELSE comps[1] \o <<"/">> \o JoinSlash(Tail(comps))

\* The loop of posixpath.normpath: empty and "." components are dropped, a
\* ".." takes the component before it away, or stays where there is none to
\* take and the path is relative.
RECURSIVE NormComps(_, _, _)
NormComps(comps, new_comps, rooted) ==
  IF comps = << >> THEN new_comps
  ELSE LET comp == Head(comps)
           n == Len(new_comps)
       IN NormComps(Tail(comps),
            IF comp = << >> \/ comp = <<".">> THEN new_comps
            ELSE IF \/ comp # <<".", ".">>
                    \/ (~rooted /\ n = 0)
                    \/ (n > 0 /\ new_comps[n] = <<".", ".">>)
              THEN Append(new_comps, comp)
            ELSE IF n > 0 THEN SubSeq(new_comps, 1, n - 1)
            ELSE new_comps,
            rooted)

\* normpath: the leading slashes kept, one, or two when there are exactly
\* two.
InitialSlashes(p) ==
  IF p = << >> \/ Head(p) # "/" THEN 0
  ELSE IF Len(p) >= 2 /\ p[2] = "/" /\ ~(Len(p) >= 3 /\ p[3] = "/") THEN 2
  ELSE 1

\* os.path.normpath(p).
Normpath(p) ==
  LET slashes == InitialSlashes(p)
      path == [k \in 1..slashes |-> "/"]
                \o JoinSlash(NormComps(SplitSlash(p), << >>, slashes > 0))
  IN IF path = << >> THEN <<".">> ELSE path

\* os.path.abspath(p): a relative path is joined to the working directory,
\* and the result normalized.
Abspath(p) ==
  IF p # << >> /\ Head(p) = "/" THEN Normpath(p)
  ELSE Normpath(Cwd \o <<"/">> \o p)

\* os.path.dirname(p), p a text: what is before the last slash, without its
\* trailing slashes unless it is slashes only.
RECURSIVE RStripSlash(_)
RStripSlash(p) ==
  IF p # << >> /\ p[Len(p)] = "/" THEN RStripSlash(SubSeq(p, 1, Len(p) - 1))
  ELSE p

RECURSIVE PathHead(_)
PathHead(p) ==
  IF p = << >> \/ p[Len(p)] = "/" THEN p
  ELSE PathHead(SubSeq(p, 1, Len(p) - 1))

CliDirname(p) ==
  IF RStripSlash(PathHead(p)) = << >> THEN PathHead(p)
  ELSE RStripSlash(PathHead(p))

\* pick_output_dir, lines 18-37: the second argument, made absolute, when it
\* is not blank; else the folder chosen in the dialog; else (dialog
\* cancelled, or Tk failing) default_dir.
pick_output_dir(default_dir, argv, chosen) ==
  IF Len(argv) >= 3 /\ Strip(argv[3]) # << >> THEN Abspath(argv[3])
  ELSE IF chosen # << >> THEN chosen
  ELSE default_dir

\* main, lines 70-71: pick_output_dir, for the folder of the media path
\* (made absolute at line 51), and os.makedirs, which can raise.
CliPickOutdir ==
  /\ cli.pc = "pick"
  /\ \E chosen \in {<< >>, <<"/", "c">>} :
       LET c == [CliDid(cli, "pick")
                   EXCEPT !.out = pick_output_dir(
                                    CliDirname(Abspath(cli.argv[2])),
                                    cli.argv, chosen)]
       IN \/ CliStep([c EXCEPT !.pc = "transcribe"])
          \/ CliStep(CliRaise(c))

\* main, lines 73-75: model.transcribe returns or raises.
CliTranscribe ==
  /\ cli.pc = "transcribe"
  /\ \/ CliStep([CliDid(cli, "transcribe") EXCEPT !.pc = "write"])
     \/ CliStep(CliRaise(CliDid(cli, "transcribe")))

\* main, lines 77-83: the transcript is written and main returns (exit
\* status 0); or open raises; or the file is created and writing it raises.
CliWrite ==
  /\ cli.pc = "write"
  /\ \/ CliStep([CliDid(cli, "write") EXCEPT
                   !.written = "whole", !.pc = "exited", !.by = "end"])
     \/ CliStep(CliRaise(CliDid(cli, "write")))
     \/ CliStep(CliRaise([CliDid(cli, "write") EXCEPT !.written = "part"]))

NextCli ==
  \/ CliArgs \/ CliExists \/ CliEnsureFfmpeg \/ CliImport \/ CliLoadModel
  \/ CliPickOutdir \/ CliTranscribe \/ CliWrite

\* One run of the script for every command line, disk and PATH.
InitCli ==
  /\ Fresh
  /\ dnd = FALSE
  /\ ffmpegFound = TRUE
  /\ mainPc = "off"
  /\ workerPc = "unborn"
  /\ cli \in CliStart

SpecCli == InitCli /\ [][NextCli]_vars

\* ================================================================ claims
\* Messages about item i, and the terminal ones among them.
MsgsAbout(i) == {k \in DOMAIN emitted : emitted[k].id = i}

TerminalMsgs(i) == {k \in MsgsAbout(i) : emitted[k].kind \in TerminalKinds}

CallsOf(op, i) == {k \in DOMAIN hist : hist[k].op = op /\ hist[k].id = i}

Dequeued(i) == CallsOf("get", i) # {}

\* The worker is inside the iteration of its path.
Iterating ==
  workerPc \notin {"unborn", "ensure", "get", "poll", "returned", "crashed"}

\* Item i was dequeued and its iteration is over.
Finished(i) == Dequeued(i) /\ ~(Iterating /\ cur.id = i)

\* An item put so far is still waiting in the queue, or was dequeued and has
\* had no terminal message yet.
InFlight ==
  \/ in_q # << >>
  \/ Iterating /\ TerminalMsgs(cur.id) = {}

\* C1: with ffmpeg and ffprobe found, every dequeued path gets at most one
\* terminal message ([Done], [Error] or [Skip]) and, once its iteration is
\* over, exactly one.
C1_OneTerminalPerPath ==
  ffmpegFound =>
    \A i \in 1..nextId :
      /\ Dequeued(i) => Cardinality(TerminalMsgs(i)) <= 1
      /\ Finished(i) => Cardinality(TerminalMsgs(i)) = 1

\* C2: the worker dequeues the items in the order they were put (the j-th
\* get returns the j-th item put, and the queue holds the rest in put
\* order), one at a time, and no message about an item is emitted before
\* the terminal message of the item put before it.
GetOrder == SelectSeq(hist, LAMBDA h : h.op = "get")

C2_SubmissionOrder ==
  /\ \A j \in DOMAIN GetOrder : GetOrder[j].id = j
  /\ \A j \in DOMAIN in_q : in_q[j].id = Len(GetOrder) + j
  /\ Len(GetOrder) + Len(in_q) = nextId
  /\ \A k \in DOMAIN emitted :
       emitted[k].id > 0 =>
         /\ emitted[k].id <= Len(GetOrder)
         /\ \A i \in 1..(emitted[k].id - 1) :
              \E t \in TerminalMsgs(i) : t < k

\* Three items were put, two were processed, the second after the first,
\* and the third waits.
C2_Witness ==
  /\ Len(GetOrder) = 2 /\ Len(in_q) = 1
  /\ \E a \in DOMAIN emitted, b \in DOMAIN emitted :
       /\ a < b
       /\ emitted[a].id = 1 /\ emitted[b].id = 2
       /\ emitted[a].kind \in TerminalKinds
       /\ emitted[b].kind \in TerminalKinds

\* C3: a join() on the queue returns only when no item put so far is in
\* flight: none waiting in the queue, none being processed.
C3_JoinOnlyWhenAllTerminal == JoinReturns(unfinished) => ~InFlight

\* C4: with ffmpeg and ffprobe found and the worker scheduled, a join() on
\* the queue always returns in the end, whatever happened to the items.
C4_JoinNeverHangs ==
  (ffmpegFound /\ ~JoinReturns(unfinished)) ~> JoinReturns(unfinished)

\* C5: an exception raised while an item is processed (by the initialization
\* of the model, makedirs, transcribe or the write) is reported as an error
\* and does not end the worker thread.
C5_FailureDoesNotEndWorker ==
  outcome \in {"initfail", "raised"} =>
    /\ workerPc # "crashed"
    /\ workerPc \in {"finally", "get"} => TerminalMsgs(cur.id) # {}

\* C6: while the model has never been loaded, every item whose iteration is
\* over and whose file was there had its own initialization attempt and its
\* own report of the failure, the handle is still None, and no item is
\* dropped: the worker is not dead with items left in the queue.
ReportsOfInitFailure(i) ==
  {k \in MsgsAbout(i) : emitted[k].kind = "MissingDeps"}

SkipMsgs(i) == {k \in MsgsAbout(i) : emitted[k].kind = "Skip"}

C6_InitFailurePerItem ==
  (model = None /\ nextId >= 2) =>
    /\ \A i \in 1..nextId :
         Finished(i) /\ SkipMsgs(i) = {} =>
           /\ Cardinality(CallsOf("init", i)) = 1
           /\ Cardinality(ReportsOfInitFailure(i)) = 1
    /\ ~(workerPc = "crashed" /\ in_q # << >>)

\* C7: a path that is not there when the worker looks gets one [Skip] message
\* and nothing else (no initialization, no transcription, no other message),
\* is marked done, and the worker goes on to the next item.
C7_SkipDoesNotBlock ==
  /\ \A i \in 1..nextId :
       SkipMsgs(i) # {} =>
         /\ Cardinality(MsgsAbout(i)) = 1
         /\ CallsOf("init", i) = {} /\ CallsOf("transcribe", i) = {}
         /\ Finished(i) =>
              Cardinality(CallsOf("task_done", i)) = 1
  /\ outcome = "skip" => workerPc # "crashed"

KindMsgs(kind, i) == {k \in MsgsAbout(i) : emitted[k].kind = kind}

\* C9: every transcript is in the directory get_outdir named when the
\* worker called it for that item, or in the directory of the media file
\* when it named none.
ReadFor(i) == {k \in DOMAIN hist : hist[k].op = "get_outdir" /\ hist[k].id = i}

C9_OutdirReadPerItem ==
  \A n \in DOMAIN files :
    /\ Cardinality(ReadFor(files[n].id)) = 1
    /\ \A k \in ReadFor(files[n].id) :
         files[n].dir = IF hist[k].field # << >> THEN hist[k].field
                        ELSE Dirname(files[n].path)

\* Two items with the same path, put while the setting had one value, were
\* written to different directories, the second not to the one the setting
\* named when it was put.
C9_Witness ==
  \E a \in DOMAIN files, b \in DOMAIN files :
    /\ a < b
    /\ files[a].dir # files[b].dir
    /\ files[a].path = files[b].path
    /\ files[a].whole /\ files[b].whole
    /\ \E x \in ReadFor(files[a].id), y \in ReadFor(files[b].id) :
         hist[x].field # hist[y].field
    /\ cur.id = files[b].id
    /\ files[b].dir # ResolveOutdirAtPut(<< >>, cur)
    /\ KindMsgs("Done", files[a].id) # {} /\ KindMsgs("Done", files[b].id) # {}

\* C11: when ffmpeg or ffprobe is missing at worker start, the worker emits
\* exactly one message, the ffmpeg error, and goes no further: it never
\* dequeues an item, never initializes the model and never writes a file,
\* whatever is put in the queue afterwards.
C11_FfmpegMissingStopsWorker ==
  ~ffmpegFound =>
    /\ workerPc \in {"ensure", "returned"}
    /\ hist = << >> /\ files = << >> /\ model = None /\ cur = NoItem
    /\ \A k \in DOMAIN emitted : emitted[k].kind = "FfmpegError"
    /\ Len(emitted) = IF workerPc = "returned" THEN 1 ELSE 0

\* The tool is missing, the worker has reported it and returned, and items
\* put since wait in the queue.
C11_Witness ==
  /\ ~ffmpegFound /\ workerPc = "returned"
  /\ Len(in_q) >= 2 /\ Len(in_q) = nextId
  /\ Len(emitted) = 1

\* C12: a transcript file is written once per successfully processed item
\* and never otherwise. An item with a [Done] message has exactly one file,
\* written whole by one write, after its [Transcribing] message and before
\* its [Done] message; an item that was skipped, or whose error was raised
\* before the file was opened, has no file; no item has two files.
FilesOf(i) == {k \in DOMAIN files : files[k].id = i}

C12_OneFilePerDone ==
  /\ [](\A i \in 1..nextId :
          /\ Cardinality(FilesOf(i)) <= 1
          /\ KindMsgs("Done", i) # {} =>
               /\ Cardinality(FilesOf(i)) = 1
               /\ \A k \in FilesOf(i) : files[k].whole
               /\ Cardinality(CallsOf("write", i)) = 1
               /\ \A d \in KindMsgs("Done", i) :
                    \E t \in KindMsgs("Transcribing", i) : t < d
          /\ (Finished(i) /\ KindMsgs("Done", i) = {}
                /\ CallsOf("write_raised", i) = {}) => FilesOf(i) = {}
          /\ SkipMsgs(i) # {} => FilesOf(i) = {})
  /\ [][/\ files' # files =>
            /\ \/ files' = Append(files, Written(FALSE))
               \/ FilesOf(cur.id) # {} /\ files' = Filled(files)
            /\ emitted' = emitted
            /\ \E k \in DOMAIN hist : hist[k] = Call("transcribe", cur.id)
            /\ KindMsgs("Transcribing", cur.id) # {}
            /\ KindMsgs("Done", cur.id) = {}
       /\ (\E k \in DOMAIN emitted' \ DOMAIN emitted :
              emitted'[k].kind = "Done") =>
            /\ emitted' = Append(emitted, W("Done"))
            /\ files' = files
            /\ \E k \in FilesOf(cur.id) : files[k].whole]_vars

\* One item is done with its file written, another was skipped and a third
\* ended in an error raised by the transcription: one file in all.
C12_Witness ==
  \E i, j, l \in 1..nextId :
    /\ Finished(i) /\ Finished(j) /\ Finished(l)
    /\ KindMsgs("Done", i) # {} /\ FilesOf(i) # {}
    /\ SkipMsgs(j) # {}
    /\ KindMsgs("Error", l) # {} /\ CallsOf("transcribe", l) # {}
    /\ CallsOf("write_raised", l) = {}
    /\ Len(files) = 1

\* C14: every dequeued item is marked done exactly once: task_done is called
\* at most once for an item and once for a finished one, it never raises,
\* and the counter of unfinished tasks is zero only when the queue is empty
\* and every item put so far is finished.
MarkDoneCalls(i) == CallsOf("task_done", i) \cup CallsOf("task_done_raised", i)

C14_MarkedDoneExactlyOnce ==
  /\ \A i \in 1..nextId :
       /\ Cardinality(MarkDoneCalls(i)) <= 1
       /\ Finished(i) => Cardinality(MarkDoneCalls(i)) = 1
       /\ CallsOf("task_done_raised", i) = {}
  /\ unfinished = 0 => /\ in_q = << >>
                       /\ \A i \in 1..nextId : Finished(i)

\* C16: the model handle is a lazy singleton. It changes only from
\* uninitialized to loaded, by the worker's load step for a dequeued item
\* that was found on disk; an initialization is attempted only by the worker,
\* for such an item, while the handle is uninitialized; and once the handle
\* is loaded the worker is never again in its initialization steps.
C16_ModelLazySingleton ==
  /\ [](model # None => workerPc \notin {"init", "loading", "load"})
  /\ [][model' # model =>
          /\ model = None /\ model' = "loaded"
          /\ workerPc = "load" /\ workerPc' # workerPc
          /\ Iterating /\ SkipMsgs(cur.id) = {}]_vars
  /\ [][\A k \in DOMAIN hist' \ DOMAIN hist :
          hist'[k].op = "init" =>
            /\ model = None /\ workerPc = "init"
            /\ hist'[k].id = cur.id /\ SkipMsgs(cur.id) = {}]_vars

\* The handle is loaded; it was initialized for one item, after an earlier
\* item's initialization had failed, and a later item was transcribed with
\* it without any initialization.
C16_Witness ==
  /\ model = "loaded"
  /\ \E f, i, j \in 1..nextId :
       /\ f < i /\ i < j
       /\ ReportsOfInitFailure(f) # {}
       /\ CallsOf("init", i) # {} /\ CallsOf("transcribe", i) # {}
       /\ CallsOf("init", j) = {} /\ CallsOf("transcribe", j) # {}

\* C20 as stated: once stop() has been called the worker dequeues no further
\* item.
StopCalls == {k \in DOMAIN hist : hist[k].op = "stop"}
GetsAfterStop ==
  {g \in DOMAIN hist : hist[g].op = "get" /\ \E s \in StopCalls : s < g}

C20_NoDequeueAfterStop == GetsAfterStop = {}

\* C20, amended: once stop() has been called the worker dequeues at most one
\* further item, by a get() (the stop event is tested before get() is
\* entered, not in it); when it next tests the event it leaves the loop and
\* returns, after which it takes nothing from the queue and marks nothing
\* done; and under fair scheduling the thread ends after stop().
C20_AtMostOneDequeueAfterStop ==
  /\ [](Cardinality(GetsAfterStop) <= 1)
  /\ [][(stopFlag /\ workerPc = "get" /\ workerPc' # workerPc) =>
          workerPc' = "returned"]_vars
  /\ [][workerPc = "returned" =>
          /\ workerPc' = "returned"
          /\ \A k \in DOMAIN hist' \ DOMAIN hist : hist'[k].op = "stop"
          /\ unfinished' >= unfinished
          /\ Len(in_q') >= Len(in_q)
          /\ \A k \in DOMAIN in_q : in_q'[k] = in_q[k]]_vars
  /\ stopFlag ~> (workerPc \in {"returned", "crashed"})

\* stop() was called while the worker was inside get(); the get() returned
\* an item afterwards, the worker processed it, found the event set and
\* returned, leaving an item in the queue, not marked done.
C20_Witness ==
  /\ stopFlag /\ workerPc = "returned"
  /\ Cardinality(GetsAfterStop) = 1
  /\ \A g \in GetsAfterStop : Finished(hist[g].id)
  /\ in_q # << >> /\ unfinished > 0

\* C13: the script exits with status 1 when the argument or the media file
\* is missing, and then it has begun none of the later steps (ffmpeg check,
\* import, model load, choice of the output folder, transcription, write);
\* and a transcript file exists only when the argument and the file were
\* there, ffmpeg was found, and the import, the load, the choice of the
\* folder and the transcription, in this order, came before the write.
CliMissingInput == Len(cli.argv) < 2 \/ ~cli.exists

C13_CliExitsBeforeAnyWork ==
  cli.pc # "off" =>
    /\ CliMissingInput =>
         /\ cli.did = << >> /\ cli.written = "no"
         /\ cli.pc \in {"args", "exists", "exited"}
         /\ cli.pc = "exited" => cli.code = 1 /\ cli.by = "exit"
    /\ cli.written # "no" =>
         /\ ~CliMissingInput /\ cli.ffmpeg /\ cli.whisper
         /\ cli.did = <<"ffmpeg", "import", "load", "pick", "transcribe",
                        "write">>

\* The script was given a path to a file that is not there and has exited
\* with status 1.
C13_Witness ==
  /\ Len(cli.argv) >= 2 /\ ~cli.exists
  /\ cli.pc = "exited" /\ cli.code = 1

====
